---------------------------- MODULE Spec2Model ----------------------------
(***************************************************************************)
(* Remote Airtable MCP server: the per-connection agent (AirtableMCP), the *)
(* tool registry built by registerAirtableTools, the Zod argument schemas, *)
(* the AirtableService adapter and the nine tool handlers.                 *)
(*                                                                         *)
(* The MCP SDK server the tools are registered on is a library: a          *)
(* tools/call request is looked up by name in the registered tools, its    *)
(* arguments are parsed with the registered schema, and only then is the   *)
(* registered callback invoked; requests are dispatched as they arrive.    *)
(***************************************************************************)
EXTENDS Integers, Sequences, FiniteSets, TLC

(***************************************************************************)
(* Bounds of the model.                                                    *)
(***************************************************************************)
MaxCommands == 2      \* tools/call requests received
MaxCleanups == 2      \* cleanup() runs per session
MaxErrorBody == 3     \* characters of the longest error body of the provider

(***************************************************************************)
(* Program constants.                                                      *)
(***************************************************************************)
MaxRecordsCap == 100  \* .max(100) of maxRecords
MinBatch == 1         \* .min(1) of records / recordIds
MaxBatch == 10        \* .max(10) of records / recordIds

Sessions == {"s1"}
Logins == {"alice", "bob"}
\* the allow-list as shipped (empty) and with a privileged user added
AllowLists == {{}, {"bob"}}

\* the two endpoints a client may connect to: serveSSE('/sse'), serve('/mcp')
Transports == {"/sse", "/mcp"}

ReadTools == {"listBases", "listTables", "describeTable", "listRecords",
              "getRecord", "searchRecords"}
WriteTools == {"createRecord", "updateRecords", "deleteRecords"}
UnknownTools == {"dropTable"}
ToolNames == ReadTools \cup WriteTools \cup UnknownTools

(***************************************************************************)
(* Argument values a client may send.  An optional or missing property is  *)
(* a field absent from the record.                                         *)
(***************************************************************************)
BaseIds == {"", "app1"}
TableIds == {"", "tbl1", "tbl9"}
RecordIds == {"", "rec1"}
Formulas == {"", "f"}
MaxRecordsValues == {-1, 0, 1, MaxRecordsCap, MaxRecordsCap + 1}
BatchSizes == {0, MinBatch, MaxBatch, MaxBatch + 1}

\* a batch of n record ids, the first of them `first`
IdBatch(n, first) == [i \in 1..n |-> IF i = 1 THEN first ELSE "rec1"]
IdBatches == {IdBatch(n, "rec1") : n \in BatchSizes} \cup {IdBatch(MinBatch, "")}
RecordBatch(ids) == [i \in 1..Len(ids) |-> [id |-> ids[i], fields |-> "fields"]]

\* args with property f set to v
With(args, f, v) ==
  [x \in DOMAIN args \cup {f} |-> IF x = f THEN v ELSE args[x]]

\* the well-formed arguments of a tool, before its batch or its bound
GoodArgs(name) ==
  CASE name = "listTables" -> [baseId |-> "app1"]
    [] name = "describeTable" -> [baseId |-> "app1", tableId |-> "tbl1"]
    [] name = "listRecords" -> [baseId |-> "app1", tableId |-> "tbl1"]
    [] name = "getRecord" ->
         [baseId |-> "app1", tableId |-> "tbl1", recordId |-> "rec1"]
    [] name = "searchRecords" ->
         [baseId |-> "app1", tableId |-> "tbl1", filterByFormula |-> "f"]
    [] name = "createRecord" ->
         [baseId |-> "app1", tableId |-> "tbl1", fields |-> "fields"]
    [] name = "updateRecords" -> [baseId |-> "app1", tableId |-> "tbl1"]
    [] name = "deleteRecords" -> [baseId |-> "app1", tableId |-> "tbl1"]
    [] OTHER -> [none |-> "none"]

\* the good arguments with one identifier emptied
OneIdEmpty(name) ==
  {With(GoodArgs(name), f, "") :
     f \in DOMAIN GoodArgs(name) \cap
           {"baseId", "tableId", "recordId", "filterByFormula"}}

ArgsOf(name) ==
  CASE name \in {"listTables", "getRecord", "createRecord"} ->
         {GoodArgs(name)} \cup OneIdEmpty(name)
    [] name = "describeTable" ->
         {With(GoodArgs(name), "tableId", t) : t \in TableIds}
         \cup OneIdEmpty(name)
    [] name \in {"listRecords", "searchRecords"} ->
         {GoodArgs(name)} \cup OneIdEmpty(name)
         \cup {With(GoodArgs(name), "maxRecords", m) : m \in MaxRecordsValues}
    [] name = "updateRecords" ->
         {With(GoodArgs(name), "records", RecordBatch(b)) : b \in IdBatches}
    [] name = "deleteRecords" ->
         {With(GoodArgs(name), "recordIds", b) : b \in IdBatches}
    [] OTHER -> {GoodArgs(name)}

Has(args, f) == f \in DOMAIN args

(***************************************************************************)
(* Zod schemas: TRUE iff parsing the arguments succeeds.                   *)
(***************************************************************************)
\* z.string().min(1, ...)
RequiredId(args, f) == Has(args, f) /\ args[f] # ""

\* z.number().int().positive().max(100).optional()
OptionalMaxRecords(args) ==
  Has(args, "maxRecords") =>
    /\ args.maxRecords \in Int
    /\ args.maxRecords > 0
    /\ args.maxRecords <= MaxRecordsCap

ListBasesSchema(args) == TRUE

ListTablesSchema(args) == RequiredId(args, "baseId")

DescribeTableSchema(args) ==
  RequiredId(args, "baseId") /\ RequiredId(args, "tableId")

\* ListRecordsSchema with .max(100) left out
ListRecordsSchemaNoMax(args) ==
  /\ RequiredId(args, "baseId")
  /\ RequiredId(args, "tableId")
  /\ (Has(args, "maxRecords") => args.maxRecords > 0)

ListRecordsSchema(args) ==
  /\ RequiredId(args, "baseId")
  /\ RequiredId(args, "tableId")
  /\ OptionalMaxRecords(args)

GetRecordSchema(args) ==
  /\ RequiredId(args, "baseId")
  /\ RequiredId(args, "tableId")
  /\ RequiredId(args, "recordId")

CreateRecordSchema(args) ==
  /\ RequiredId(args, "baseId")
  /\ RequiredId(args, "tableId")
  /\ Has(args, "fields")

\* UpdateRecordsSchema with .max(10) left out
UpdateRecordsSchemaNoMax(args) ==
  /\ RequiredId(args, "baseId")
  /\ RequiredId(args, "tableId")
  /\ Has(args, "records")
  /\ Len(args.records) >= MinBatch

UpdateRecordsSchema(args) ==
  /\ RequiredId(args, "baseId")
  /\ RequiredId(args, "tableId")
  /\ Has(args, "records")
  /\ \A i \in 1..Len(args.records) :
       Has(args.records[i], "id") /\ Has(args.records[i], "fields")
  /\ Len(args.records) >= MinBatch
  /\ Len(args.records) <= MaxBatch

DeleteRecordsSchema(args) ==
  /\ RequiredId(args, "baseId")
  /\ RequiredId(args, "tableId")
  /\ Has(args, "recordIds")
  /\ Len(args.recordIds) >= MinBatch
  /\ Len(args.recordIds) <= MaxBatch

SearchRecordsSchema(args) ==
  /\ RequiredId(args, "baseId")
  /\ RequiredId(args, "tableId")
  /\ RequiredId(args, "filterByFormula")
  /\ OptionalMaxRecords(args)

\* the schema each tool is registered with
SchemaAccepts(name, args) ==
  CASE name = "listBases" -> ListBasesSchema(args)
    [] name = "listTables" -> ListTablesSchema(args)
    [] name = "describeTable" -> DescribeTableSchema(args)
    [] name = "listRecords" -> ListRecordsSchema(args)
    [] name = "getRecord" -> GetRecordSchema(args)
    [] name = "searchRecords" -> SearchRecordsSchema(args)
    [] name = "createRecord" -> CreateRecordSchema(args)
    [] name = "updateRecords" -> UpdateRecordsSchema(args)
    [] name = "deleteRecords" -> DeleteRecordsSchema(args)
    [] OTHER -> FALSE


(***************************************************************************)
(* The provider (Airtable REST API) as seen through fetch.                 *)
(***************************************************************************)
SchemaBodies ==
  { [tables |-> <<[id |-> "tbl1", name |-> "Table 1"]>>],
    [tables |-> << >>],
    [offset |-> "none"] }
RecordBodies == { [records |-> <<[id |-> "rec1", deleted |-> TRUE],
                                 [id |-> "rec2", deleted |-> FALSE]>>] }

\* the text bodies of non-2xx answers, as sequences of characters
ErrorBodies == {[i \in 1..n |-> "e"] : n \in {1, MaxErrorBody}}

OkBodies(name) ==
  IF name = "describeTable" THEN SchemaBodies ELSE RecordBodies

\* what one fetch can come to: a 2xx answer with a JSON body, a 2xx answer
\* whose body is not JSON, a non-2xx answer with a text body, a rejected fetch
Responses(name) ==
  {[kind |-> "ok", status |-> 200, statusText |-> "OK", body |-> b] :
      b \in OkBodies(name)}
  \cup {[kind |-> "badjson", status |-> 200, statusText |-> "OK",
         body |-> [raw |-> "<html>"]]}
  \cup {[kind |-> "http", status |-> 422, statusText |-> "Unprocessable Entity",
         body |-> [raw |-> b]] : b \in ErrorBodies}
  \cup {[kind |-> "network", status |-> 0, statusText |-> "",
         body |-> [raw |-> ""]]}

\* a call's outcome: a returned value or a thrown Error with its message
Return(v) == [threw |-> FALSE, value |-> v]
Throw(m) == [threw |-> TRUE, message |-> m]

\* AirtableService.makeRequest, from the moment fetch settles
makeRequest(resp) ==
  IF resp.kind = "network"
    THEN Throw([prefix |-> "fetch failed"])
  ELSE IF resp.kind = "http"
    THEN Throw([prefix |-> "Airtable API error: ", status |-> resp.status,
                statusText |-> resp.statusText, error |-> resp.body.raw])
  ELSE IF resp.kind = "badjson"
    THEN Throw([prefix |-> "Unexpected token in JSON"])
  ELSE Return(resp.body)

(***************************************************************************)
(* AirtableService: the one request each method hands to makeRequest.      *)
(***************************************************************************)
Request(method, path, entries) ==
  [method |-> method, path |-> path, entries |-> entries]

listBases == Request("GET", <<"meta", "bases">>, 0)
getBaseSchema(baseId) == Request("GET", <<"meta", "bases", baseId, "tables">>, 0)
\* listRecords that sends its options in a request body
listRecordsWithBody(baseId, tableId) == Request("POST", <<baseId, tableId>>, 0)

listRecords(baseId, tableId) == Request("GET", <<baseId, tableId>>, 0)
getRecord(baseId, tableId, recordId) ==
  Request("GET", <<baseId, tableId, recordId>>, 0)
createRecord(baseId, tableId) == Request("POST", <<baseId, tableId>>, 1)
updateRecords(baseId, tableId, records) ==
  Request("PATCH", <<baseId, tableId>>, Len(records))
deleteRecords(baseId, tableId, recordIds) ==
  Request("DELETE", <<baseId, tableId>>, Len(recordIds))

\* the adapter call a tool's handler makes with its validated arguments
RequestOf(name, args) ==
  CASE name = "listBases" -> listBases
    [] name = "listTables" -> getBaseSchema(args.baseId)
    [] name = "describeTable" -> getBaseSchema(args.baseId)
    [] name = "listRecords" -> listRecords(args.baseId, args.tableId)
    [] name = "getRecord" -> getRecord(args.baseId, args.tableId, args.recordId)
    [] name = "searchRecords" -> listRecords(args.baseId, args.tableId)
    [] name = "createRecord" -> createRecord(args.baseId, args.tableId)
    [] name = "updateRecords" ->
         updateRecords(args.baseId, args.tableId, args.records)
    [] name = "deleteRecords" ->
         deleteRecords(args.baseId, args.tableId, args.recordIds)

(***************************************************************************)
(* Tool results.  The text of a result is kept in its parts: the heading,  *)
(* the argument interpolated into it, and the JSON or the error message.   *)
(***************************************************************************)
JSONstringify(v) == [json |-> v]

\* the try branch's return value
SuccessResult(head, arg, value) ==
  [content |-> <<[type |-> "text",
                  text |-> [head |-> head, arg |-> arg,
                            body |-> JSONstringify(value)]]>>]

\* the catch branch's return value: isError sits inside the content item
ErrorResult(what, arg, message) ==
  [content |-> <<[type |-> "text",
                  text |-> [head |-> "**Error**", what |-> what, arg |-> arg,
                            message |-> message],
                  isError |-> TRUE]>>]

Heading(name) ==
  CASE name = "listBases" -> "**Airtable Bases**"
    [] name = "listTables" -> "**Tables in Base "
    [] name = "describeTable" -> "**Table Details**"
    [] name = "listRecords" -> "**Records from "
    [] name = "getRecord" -> "**Record "
    [] name = "searchRecords" -> "**Search Results**"
    [] name = "createRecord" -> "**Record Created**"
    [] name = "updateRecords" -> "**Records Updated**"
    [] name = "deleteRecords" -> "**Records Deleted**"

HeadingArg(name, args) ==
  CASE name = "listTables" -> args.baseId
    [] name = "listRecords" -> args.tableId
    [] name = "getRecord" -> args.recordId
    [] OTHER -> ""

FailedTo(name) ==
  CASE name = "listBases" -> "Failed to list bases: "
    [] name = "listTables" -> "Failed to list tables: "
    [] name = "describeTable" -> "Failed to describe table: "
    [] name = "listRecords" -> "Failed to list records: "
    [] name = "getRecord" -> "Failed to get record: "
    [] name = "searchRecords" -> "Failed to search records: "
    [] name = "createRecord" -> "Failed to create record: "
    [] name = "updateRecords" -> "Failed to update records: "
    [] name = "deleteRecords" -> "Failed to delete records: "

\* describeTable, after getBaseSchema settles
describeTableHandler(args, resp) ==
  LET r == makeRequest(resp) IN
  IF r.threw THEN ErrorResult(FailedTo("describeTable"), "", r.message)
  ELSE IF ~Has(r.value, "tables")
    THEN ErrorResult(FailedTo("describeTable"), "",
                     [prefix |-> "Cannot read properties of undefined"])
  ELSE LET tables == r.value.tables
           hits == {i \in 1..Len(tables) : tables[i].id = args.tableId}
       IN IF hits = {}
            THEN ErrorResult("Table not found in base", args.tableId,
                             [prefix |-> args.baseId])
            ELSE SuccessResult(Heading("describeTable"), "",
                               tables[CHOOSE i \in hits : \A j \in hits : i <= j])

\* plainHandler that reports every entry of a batch as done
plainHandlerUniformSuccess(name, args, resp) ==
  LET r == makeRequest(resp) IN
  IF r.threw THEN ErrorResult(FailedTo(name), "", r.message)
  ELSE SuccessResult(Heading(name), HeadingArg(name, args),
         [records |-> [i \in 1..Len(r.value.records) |->
                         [id |-> r.value.records[i].id, deleted |-> TRUE]]])

\* the other eight handlers, after the adapter call settles
plainHandler(name, args, resp) ==
  LET r == makeRequest(resp) IN
  IF r.threw THEN ErrorResult(FailedTo(name), "", r.message)
  ELSE SuccessResult(Heading(name), HeadingArg(name, args), r.value)

ToolHandler(name, args, resp) ==
  IF name = "describeTable" THEN describeTableHandler(args, resp)
  ELSE plainHandler(name, args, resp)

(***************************************************************************)
(* The SDK server's own answers to a request it does not hand to a tool.   *)
(***************************************************************************)
SdkError(what, name) ==
  [content |-> <<[type |-> "text",
                  text |-> [head |-> "McpError", what |-> what, arg |-> name,
                            message |-> [prefix |-> "-32602"]]]>>,
   isError |-> TRUE]

ToolNotFound(name) == SdkError("Tool not found", name)
InvalidArguments(name) == SdkError("Invalid arguments for tool", name)

(***************************************************************************)
(* State.                                                                  *)
(***************************************************************************)
VARIABLES
  ALLOWED_WRITE_USERNAMES, \* the module-level allow-list, as deployed
  props,          \* props[s]: the login the OAuth handshake bound to s
  transport,      \* transport[s]: the endpoint s is served on
  initialized,    \* initialized[s]: init() has completed
  tools,          \* tools[s]: names registered on s's McpServer
  nextId,         \* tools/call requests received so far
  inflight,       \* inflight[s]: handlers awaiting the provider, each with
                  \* its request id, its arguments and (history) the number
                  \* of cleanup() runs that preceded its start
  requests,       \* requests[s]: what s has sent to the provider, in order
  delivered,      \* delivered[s]: [id, failed] of the results sent, in order
  lastEnv,        \* the result sent last, with the request it answers and
                  \* (history) whether a cleanup() ran while it was pending
  cleanups,       \* cleanups[s]: completed runs of cleanup()
  cleanupErrors   \* cleanupErrors[s]: errors caught (and logged) by cleanup()

vars == <<ALLOWED_WRITE_USERNAMES, props, transport, initialized, tools, nextId,
          inflight, requests, delivered, lastEnv, cleanups, cleanupErrors>>

NoResult == [none |-> TRUE]

\* the answer was not made from a response of the provider
NoResponse == [kind |-> "none"]

\* a server whose tools are registered where it is constructed
NewMcpServerWithTools == ReadTools

\* the tools of a server as constructed: none
NewMcpServer == {}

\* the outcome a result's text tells: the handler's catch branch, the
\* table-not-found branch and the SDK's own errors all head the text so
IsFailureText(result) ==
  result.content[1].text.head \in {"**Error**", "McpError"}

Init ==
  /\ ALLOWED_WRITE_USERNAMES \in AllowLists
  /\ props \in [Sessions -> [login : Logins]]
  /\ transport \in [Sessions -> Transports]
  /\ initialized = [s \in Sessions |-> FALSE]
  /\ tools = [s \in Sessions |-> NewMcpServer]
  /\ nextId = 0
  /\ inflight = [s \in Sessions |-> {}]
  /\ requests = [s \in Sessions |-> << >>]
  /\ delivered = [s \in Sessions |-> << >>]
  /\ lastEnv = NoResult
  /\ cleanups = [s \in Sessions |-> 0]
  /\ cleanupErrors = [s \in Sessions |-> 0]

(***************************************************************************)
(* registerAirtableTools: the names it registers for a login.              *)
(***************************************************************************)
\* registerAirtableTools with the write block outside the if
registerAirtableToolsUngated(login) == ReadTools \cup WriteTools

\* registerAirtableTools with the allow-list test negated
registerAirtableToolsNegated(login) ==
  ReadTools \cup
    (IF login \notin ALLOWED_WRITE_USERNAMES THEN WriteTools ELSE {})

registerAirtableTools(login) ==
  ReadTools \cup
    (IF login \in ALLOWED_WRITE_USERNAMES THEN WriteTools ELSE {})

\* AirtableMCP.init
init(s) ==
  /\ ~initialized[s]
  /\ tools' = [tools EXCEPT ![s] = registerAirtableTools(props[s].login)]
  /\ initialized' = [initialized EXCEPT ![s] = TRUE]
  /\ UNCHANGED <<ALLOWED_WRITE_USERNAMES, props, transport, nextId, inflight,
                 requests, delivered, lastEnv, cleanups, cleanupErrors>>

(***************************************************************************)
(* A tools/call request reaching s's server.                               *)
(***************************************************************************)
Receive ==
  /\ nextId < MaxCommands
  /\ nextId' = nextId + 1

\* the server writes a result on the session's transport
\* (history: resp, the provider's response the result was made from, and
\* raced, a cleanup() ran between the request and this result)
Send(s, id, name, args, resp, result, raced) ==
  /\ delivered' = [delivered EXCEPT
        ![s] = Append(@, [id |-> id, failed |-> IsFailureText(result)])]
  /\ lastEnv' = [s |-> s, id |-> id, name |-> name, args |-> args,
                 resp |-> resp, result |-> result, raced |-> raced]

\* no tool of that name is registered
CallNotFound(s, name, args) ==
  /\ Receive
  /\ name \notin tools[s]
  /\ Send(s, nextId + 1, name, args, NoResponse, ToolNotFound(name), FALSE)
  /\ UNCHANGED <<ALLOWED_WRITE_USERNAMES, props, transport, initialized, tools, inflight,
                 requests, cleanups, cleanupErrors>>

\* the tool's schema rejects the arguments
CallInvalid(s, name, args) ==
  /\ Receive
  /\ name \in tools[s]
  /\ ~SchemaAccepts(name, args)
  /\ Send(s, nextId + 1, name, args, NoResponse, InvalidArguments(name),
          FALSE)
  /\ UNCHANGED <<ALLOWED_WRITE_USERNAMES, props, transport, initialized, tools, inflight,
                 requests, cleanups, cleanupErrors>>

\* CallStart whose adapter sends one request per entry of a batch
CallStartPerEntry(s, name, args) ==
  LET req == RequestOf(name, args)
      n == IF req.entries > 1 THEN req.entries ELSE 1
  IN
  /\ Receive
  /\ name \in tools[s]
  /\ SchemaAccepts(name, args)
  /\ inflight' = [inflight EXCEPT
        ![s] = @ \cup {[id |-> nextId + 1, name |-> name, args |-> args,
                     epoch |-> cleanups[s]]}]
  /\ requests' = [requests EXCEPT
        ![s] = @ \o [i \in 1..n |->
                      [id |-> nextId + 1,
                       req |-> Request(req.method, req.path, 1)]]]
  /\ UNCHANGED <<ALLOWED_WRITE_USERNAMES, props, transport, initialized,
                 tools, delivered, lastEnv, cleanups, cleanupErrors>>

\* the handler runs up to its await: the adapter has called fetch
CallStart(s, name, args) ==
  /\ Receive
  /\ name \in tools[s]
  /\ SchemaAccepts(name, args)
  /\ inflight' = [inflight EXCEPT
        ![s] = @ \cup {[id |-> nextId + 1, name |-> name, args |-> args,
                     epoch |-> cleanups[s]]}]
  /\ requests' = [requests EXCEPT
        ![s] = Append(@, [id |-> nextId + 1, req |-> RequestOf(name, args)])]
  /\ UNCHANGED <<ALLOWED_WRITE_USERNAMES, props, transport, initialized, tools, delivered,
                 lastEnv, cleanups, cleanupErrors>>

\* HandlerReturn whose failure closes the session's server
HandlerReturnClosesOnError(s, h, resp) ==
  LET result == ToolHandler(h.name, h.args, resp) IN
  /\ h \in inflight[s]
  /\ resp \in Responses(h.name)
  /\ inflight' = [inflight EXCEPT ![s] = @ \ {h}]
  /\ Send(s, h.id, h.name, h.args, resp, result, h.epoch < cleanups[s])
  /\ tools' = [tools EXCEPT ![s] = IF IsFailureText(result) THEN {} ELSE @]
  /\ UNCHANGED <<ALLOWED_WRITE_USERNAMES, props, transport, initialized, nextId,
                 requests, cleanups, cleanupErrors>>

\* HandlerReturn that leaves the handler pending, so that it settles again
HandlerReturnStaysPending(s, h, resp) ==
  /\ h \in inflight[s]
  /\ resp \in Responses(h.name)
  /\ Len(delivered[s]) <= MaxCommands
  /\ Send(s, h.id, h.name, h.args, resp, ToolHandler(h.name, h.args, resp),
          h.epoch < cleanups[s])
  /\ UNCHANGED <<ALLOWED_WRITE_USERNAMES, props, transport, initialized, tools, nextId,
                 inflight, requests, cleanups, cleanupErrors>>

\* HandlerReturn that, on the /sse endpoint, lets a provider failure surface
\* as the server's own error result instead of the handler's
HandlerReturnSseRethrows(s, h, resp) ==
  LET r == ToolHandler(h.name, h.args, resp)
      result == IF transport[s] = "/sse" /\ IsFailureText(r)
                  THEN SdkError("Internal error", h.name) ELSE r
  IN
  /\ h \in inflight[s]
  /\ resp \in Responses(h.name)
  /\ inflight' = [inflight EXCEPT ![s] = @ \ {h}]
  /\ Send(s, h.id, h.name, h.args, resp, result, h.epoch < cleanups[s])
  /\ UNCHANGED <<ALLOWED_WRITE_USERNAMES, props, transport, initialized,
                 tools, nextId, requests, cleanups, cleanupErrors>>

\* fetch settles and the handler runs to its return
HandlerReturn(s, h, resp) ==
  /\ h \in inflight[s]
  /\ resp \in Responses(h.name)
  /\ inflight' = [inflight EXCEPT ![s] = @ \ {h}]
  /\ Send(s, h.id, h.name, h.args, resp, ToolHandler(h.name, h.args, resp),
          h.epoch < cleanups[s])
  /\ UNCHANGED <<ALLOWED_WRITE_USERNAMES, props, transport, initialized, tools, nextId,
                 requests, cleanups, cleanupErrors>>

(***************************************************************************)
(* AirtableMCP.cleanup and AirtableMCP.alarm.                               *)
(***************************************************************************)
\* cleanup() whose try block releases something that a second release
\* rejects: the repeated call lands in the catch block
cleanupThrowsWhenRepeated(s) ==
  /\ cleanups[s] < MaxCleanups
  /\ cleanups' = [cleanups EXCEPT ![s] = @ + 1]
  /\ cleanupErrors' = [cleanupErrors EXCEPT
        ![s] = IF cleanups[s] >= 1 THEN @ + 1 ELSE @]
  /\ UNCHANGED <<ALLOWED_WRITE_USERNAMES, props, transport, initialized, tools, nextId,
                 inflight, requests, delivered, lastEnv>>

\* cleanup() that drops the handlers still awaiting the provider
cleanupDropsPending(s) ==
  /\ cleanups[s] < MaxCleanups
  /\ cleanups' = [cleanups EXCEPT ![s] = @ + 1]
  /\ inflight' = [inflight EXCEPT ![s] = {}]
  /\ UNCHANGED <<ALLOWED_WRITE_USERNAMES, props, transport, initialized, tools, nextId,
                 requests, delivered, lastEnv, cleanupErrors>>

\* cleanup(): the try block logs and cannot throw, the catch block is dead
cleanup(s) ==
  /\ cleanups[s] < MaxCleanups
  /\ cleanups' = [cleanups EXCEPT ![s] = @ + 1]
  /\ UNCHANGED <<ALLOWED_WRITE_USERNAMES, props, transport, initialized, tools, nextId,
                 inflight, requests, delivered, lastEnv, cleanupErrors>>

\* alarm(): awaits cleanup()
alarm(s) ==
  /\ cleanup(s)
  /\ UNCHANGED <<initialized, tools>>

Next ==
  \/ \E s \in Sessions : init(s)
  \/ \E s \in Sessions, name \in ToolNames : \E args \in ArgsOf(name) :
       CallNotFound(s, name, args)
  \/ \E s \in Sessions, name \in ToolNames : \E args \in ArgsOf(name) :
       CallInvalid(s, name, args)
  \/ \E s \in Sessions, name \in ToolNames : \E args \in ArgsOf(name) :
       CallStart(s, name, args)
  \/ \E s \in Sessions : \E h \in inflight[s] : \E resp \in Responses(h.name) :
       HandlerReturn(s, h, resp)
  \/ \E s \in Sessions : cleanup(s)
  \/ \E s \in Sessions : alarm(s)

Spec == Init /\ [][Next]_vars

(***************************************************************************)
(* Vocabulary of the properties.                                           *)
(***************************************************************************)
WriteMethods == {"POST", "PATCH", "DELETE"}
Allowed(s) == props[s].login \in ALLOWED_WRITE_USERNAMES
Answered == lastEnv # NoResult

\* the requests a session has sent for the command with this id
RequestsFor(s, id) == {i \in 1..Len(requests[s]) : requests[s][i].id = id}

\* the CallToolResult's own error flag
FlaggedError(result) == Has(result, "isError") /\ result.isError

\* the number of entries of a batch command's records / recordIds
BatchLen(name, args) ==
  IF name = "updateRecords" THEN Len(args.records) ELSE Len(args.recordIds)

(***************************************************************************)
(* C1: once init has completed, the session's registry is the six READ     *)
(* tools, plus the three WRITE tools exactly when the session's login is   *)
(* in the allow-list (so none of them when it is not, or when the list is  *)
(* empty); and a registry never changes after registration.                *)
(***************************************************************************)
C1_RegistryMatchesAllowList ==
  /\ [](\A s \in Sessions : initialized[s] =>
          /\ ReadTools \subseteq tools[s]
          /\ Cardinality(tools[s] \cap ReadTools) = 6
          /\ tools[s] \subseteq ReadTools \cup WriteTools
          /\ (Allowed(s) <=> WriteTools \cap tools[s] # {})
          /\ (Allowed(s) => WriteTools \subseteq tools[s])
          /\ (ALLOWED_WRITE_USERNAMES = {} => tools[s] \cap WriteTools = {}))
  /\ [][\A s \in Sessions : initialized[s] => tools'[s] = tools[s]]_vars

C1_Witness ==
  \E s \in Sessions :
    /\ initialized[s] /\ Allowed(s)
    /\ Cardinality(tools[s]) = 9
    /\ Len(delivered[s]) = MaxCommands

(***************************************************************************)
(* C2: in a session whose login is not in the allow-list no WRITE handler  *)
(* ever runs and no POST, PATCH or DELETE request is ever sent; a command  *)
(* naming a WRITE tool or an unknown tool is answered with the same        *)
(* error-flagged "Tool not found" result, and nothing is sent to the       *)
(* provider for it.                                                        *)
(***************************************************************************)
C2_NoWriteWithoutAllowList ==
  \A s \in Sessions : ~Allowed(s) =>
    /\ \A i \in 1..Len(requests[s]) : requests[s][i].req.method \notin WriteMethods
    /\ \A h \in inflight[s] : h.name \notin WriteTools
    /\ (Answered /\ lastEnv.s = s /\ lastEnv.name \in WriteTools \cup UnknownTools) =>
         /\ FlaggedError(lastEnv.result)
         /\ lastEnv.result.content[1].text.what = "Tool not found"
         /\ lastEnv.result = ToolNotFound(lastEnv.name)
         /\ RequestsFor(s, lastEnv.id) = {}

C2_Witness ==
  \E s \in Sessions :
    /\ initialized[s] /\ ~Allowed(s)
    /\ Len(delivered[s]) = MaxCommands
    /\ Answered /\ lastEnv.s = s /\ lastEnv.name = "createRecord"

\* this step writes a result on a transport
Sends == lastEnv' # lastEnv

(***************************************************************************)
(* C3: an updateRecords or deleteRecords command whose batch has 0 or more *)
(* than 10 entries is rejected (as invalid arguments where the tool is     *)
(* registered) and nothing is sent to the provider for it; a batch of      *)
(* 1..10 entries passes the size check.                                    *)
(***************************************************************************)
C3_BatchSizeChecked ==
  /\ [](/\ \A s \in Sessions : \A h \in inflight[s] :
             h.name \in {"updateRecords", "deleteRecords"} =>
               BatchLen(h.name, h.args) \in 1..10
        /\ \A s \in Sessions : \A i \in 1..Len(requests[s]) :
             requests[s][i].req.method \in {"PATCH", "DELETE"} =>
               requests[s][i].req.entries \in 1..10
        /\ (Answered /\ lastEnv.name \in {"updateRecords", "deleteRecords"}) =>
             LET n == BatchLen(lastEnv.name, lastEnv.args)
             IN (n = 0 \/ n > 10) =>
                  /\ FlaggedError(lastEnv.result)
                  /\ RequestsFor(lastEnv.s, lastEnv.id) = {})
  /\ [][\A s \in Sessions : \A name \in {"updateRecords", "deleteRecords"} :
          (Sends /\ lastEnv'.s = s /\ lastEnv'.name = name /\ name \in tools[s]) =>
            LET n == BatchLen(name, lastEnv'.args)
            IN /\ (n = 0 \/ n > 10) => lastEnv'.result = InvalidArguments(name)
               /\ n \in 1..10 =>
                    /\ lastEnv'.result # InvalidArguments(name)
                    /\ Cardinality(RequestsFor(s, lastEnv'.id)) = 1]_vars

C3_Witness ==
  /\ Answered /\ lastEnv.name = "updateRecords"
  /\ Len(lastEnv.args.records) = 11
  /\ lastEnv.result = InvalidArguments("updateRecords")
  /\ \E i \in 1..Len(requests[lastEnv.s]) :
       requests[lastEnv.s][i].req = Request("DELETE", <<"app1", "tbl1">>, 10)

(***************************************************************************)
(* C4: a listRecords or searchRecords command whose maxRecords is above    *)
(* 100, or is 0 or negative, is rejected before anything is sent to the    *)
(* provider; without maxRecords, or with an integer in 1..100, it is       *)
(* accepted.                                                               *)
(***************************************************************************)
C4_MaxRecordsChecked ==
  /\ [](/\ \A s \in Sessions : \A h \in inflight[s] :
             (h.name \in {"listRecords", "searchRecords"}
                /\ Has(h.args, "maxRecords")) => h.args.maxRecords \in 1..100
        /\ (Answered /\ lastEnv.name \in {"listRecords", "searchRecords"}
              /\ Has(lastEnv.args, "maxRecords")
              /\ (lastEnv.args.maxRecords > 100 \/ lastEnv.args.maxRecords <= 0)) =>
             /\ FlaggedError(lastEnv.result)
             /\ RequestsFor(lastEnv.s, lastEnv.id) = {})
  /\ [][\A s \in Sessions : \A name \in {"listRecords", "searchRecords"} :
          (Sends /\ lastEnv'.s = s /\ lastEnv'.name = name /\ name \in tools[s]) =>
            LET a == lastEnv'.args
                idsGiven == \A f \in DOMAIN a \ {"maxRecords"} : a[f] # ""
            IN /\ (Has(a, "maxRecords")
                     /\ (a.maxRecords > 100 \/ a.maxRecords <= 0)) =>
                    lastEnv'.result = InvalidArguments(name)
               /\ (idsGiven /\ (Has(a, "maxRecords") => a.maxRecords \in 1..100)) =>
                    /\ lastEnv'.result # InvalidArguments(name)
                    /\ Cardinality(RequestsFor(s, lastEnv'.id)) = 1]_vars

C4_Witness ==
  /\ Answered /\ lastEnv.name = "searchRecords"
  /\ Has(lastEnv.args, "maxRecords") /\ lastEnv.args.maxRecords = 101
  /\ lastEnv.result = InvalidArguments("searchRecords")
  /\ \E s \in Sessions : \E h \in inflight[s] :
       h.name = "listRecords" /\ Has(h.args, "maxRecords") /\ h.args.maxRecords = 100

(***************************************************************************)
(* The result envelope {ok, payload, errorMessage} a client reads off a    *)
(* CallToolResult: ok is the absence of the result's isError flag.         *)
(***************************************************************************)
Null == [null |-> TRUE]

Envelope(result) ==
  IF FlaggedError(result)
    THEN [ok |-> FALSE, payload |-> Null,
          errorMessage |-> result.content[1].text]
    ELSE [ok |-> TRUE, payload |-> result.content[1].text,
          errorMessage |-> Null]

DeliveredIds(s) == {delivered[s][i].id : i \in 1..Len(delivered[s])}
PendingIds(s) == {h.id : h \in inflight[s]}

\* this step starts a handler of s
Starts(s) == inflight'[s] \ inflight[s] # {}

(***************************************************************************)
(* C5: every command yields exactly one result envelope that tells its     *)
(* outcome: a failed command (validation, permission or provider failure,  *)
(* describeTable for a table the base does not have) yields ok = false,    *)
(* payload = null and a non-empty errorMessage; a successful one yields    *)
(* ok = true and errorMessage = null.                                      *)
(***************************************************************************)
C5_EnvelopeTellsOutcome ==
  /\ \A s \in Sessions : Cardinality(DeliveredIds(s)) = Len(delivered[s])
  /\ Answered =>
       LET e == Envelope(lastEnv.result) IN
       IF IsFailureText(lastEnv.result)
         THEN e.ok = FALSE /\ e.payload = Null /\ e.errorMessage # Null
         ELSE e.ok = TRUE /\ e.errorMessage = Null

(***************************************************************************)
(* C6: a failed command ends only itself: the step that answers it leaves  *)
(* the session initialized with the same login and registry and leaves the *)
(* other pending handlers alone, and a session that has answered a failure *)
(* still takes a valid command.                                            *)
(***************************************************************************)
C6_FailureEndsOnlyItsCommand ==
  /\ [][\A s \in Sessions :
          (Sends /\ lastEnv'.s = s /\ IsFailureText(lastEnv'.result)) =>
            /\ initialized'[s] = initialized[s]
            /\ props'[s] = props[s]
            /\ tools'[s] = tools[s]
            /\ inflight[s] \ inflight'[s] \subseteq
                 {h \in inflight[s] : h.id = lastEnv'.id}
            /\ cleanups' = cleanups]_vars
  /\ [](\A s \in Sessions :
          (initialized[s] /\ \E i \in 1..Len(delivered[s]) : delivered[s][i].failed) =>
            /\ tools[s] = registerAirtableTools(props[s].login)
            /\ nextId < MaxCommands =>
                 ENABLED CallStart(s, "listBases", GoodArgs("listBases")))

C6_Witness ==
  \E s \in Sessions : \E i, j \in 1..Len(delivered[s]) :
    /\ i < j
    /\ delivered[s][i].failed /\ delivered[s][i].id < delivered[s][j].id
    /\ ~delivered[s][j].failed
    /\ lastEnv.id = delivered[s][j].id
    /\ lastEnv.result.content[1].text.head = "**Airtable Bases**"

(***************************************************************************)
(* C7: cleanup is idempotent: a second or later run of cleanup(), called   *)
(* directly or from alarm(), raises nothing, lands in no catch block and   *)
(* leaves the session exactly as the first run left it.                    *)
(***************************************************************************)
C7_CleanupIdempotent ==
  /\ [](\A s \in Sessions : cleanupErrors[s] = 0)
  /\ [][\A s \in Sessions :
          (cleanups[s] >= 1 /\ cleanups'[s] = cleanups[s] + 1) =>
            /\ cleanupErrors' = cleanupErrors
            /\ UNCHANGED <<ALLOWED_WRITE_USERNAMES, props, transport, initialized, tools,
                           nextId, inflight, requests, delivered, lastEnv>>]_vars

C7_Witness ==
  \E s \in Sessions : initialized[s] /\ cleanups[s] = 2 /\ inflight[s] # {}

C12_BatchOutcomesVerbatim ==
  (Answered /\ lastEnv.name \in {"updateRecords", "deleteRecords"}
            /\ lastEnv.resp.kind = "ok") =>
    LET e == Envelope(lastEnv.result)
        sent == lastEnv.resp.body.records
    IN IF ~e.ok THEN FALSE
       ELSE LET got == e.payload.body.json.records IN
            /\ e.errorMessage = Null
            /\ e.payload.head = Heading(lastEnv.name)
            /\ Len(got) = Len(sent)
            /\ \A i \in 1..Len(sent) :
                 got[i].id = sent[i].id /\ got[i].deleted = sent[i].deleted

C12_Witness ==
  /\ Answered /\ lastEnv.name = "deleteRecords"
  /\ lastEnv.resp.kind = "ok"
  /\ Len(lastEnv.args.recordIds) = MaxBatch
  /\ \E i, j \in 1..Len(lastEnv.resp.body.records) :
       /\ lastEnv.resp.body.records[i].deleted
       /\ ~lastEnv.resp.body.records[j].deleted
       /\ ~lastEnv.result.content[1].text.body.json.records[j].deleted

(***************************************************************************)
(* C13: there is a fixed limit L such that the error text of a command the *)
(* provider answered with a non-success status includes no more than L     *)
(* characters of the provider's error body, however long that body is: the *)
(* limit is below the length of the longest body, so what the text         *)
(* includes of any body stays within some such limit.                      *)
(***************************************************************************)
ExcerptLimits == 0..(MaxErrorBody - 1)

C13_ExcerptBounded ==
  (Answered /\ lastEnv.resp.kind = "http") =>
    \E L \in ExcerptLimits :
      Len(lastEnv.result.content[1].text.message.error) <= L

(***************************************************************************)
(* C14: a command that passes validation sends exactly one request to the  *)
(* provider: a batch of N entries goes out as one request of N entries; a  *)
(* command that is answered, failed or not, sends nothing more (no retry)  *)
(* and is answered once; a repeated command sends a request of its own (no *)
(* cache); a command sends no request only if it is rejected.              *)
(***************************************************************************)
RequestIds(s) == {requests[s][i].id : i \in 1..Len(requests[s])}

C14_OneRequestPerCommand ==
  /\ [](\A s \in Sessions :
          /\ Cardinality(RequestIds(s)) = Len(requests[s])
          /\ PendingIds(s) \subseteq RequestIds(s)
          /\ Cardinality(DeliveredIds(s)) = Len(delivered[s]))
  /\ [][\A s \in Sessions :
          /\ \A h \in inflight'[s] \ inflight[s] :
               /\ Len(requests'[s]) = Len(requests[s]) + 1
               /\ SubSeq(requests'[s], 1, Len(requests[s])) = requests[s]
               /\ requests'[s][Len(requests'[s])].id = h.id
               /\ h.name \in {"updateRecords", "deleteRecords"} =>
                    requests'[s][Len(requests'[s])].req.entries =
                      BatchLen(h.name, h.args)
          /\ ~Starts(s) => requests'[s] = requests[s]
          /\ (nextId' # nextId /\ ~Starts(s)) =>
               \/ lastEnv'.name \notin tools[s]
               \/ ~SchemaAccepts(lastEnv'.name, lastEnv'.args)]_vars

C14_Witness ==
  \E s \in Sessions : \E i, j \in 1..Len(requests[s]) :
    /\ i < j
    /\ requests[s][i].req = requests[s][j].req
    /\ requests[s][i].req.method = "DELETE"
    /\ requests[s][i].req.entries = MaxBatch
    /\ delivered[s] # << >> /\ delivered[s][1].failed
    /\ delivered[s][1].id = requests[s][i].id

(***************************************************************************)
(* C15: a command with an empty identifier (base id, table id, record id,  *)
(* the id of an updateRecords entry, an id of a deleteRecords list) starts *)
(* no handler and sends no request: it is answered without the provider.   *)
(***************************************************************************)
EmptyIdentifier(args) ==
  \/ \E f \in DOMAIN args \cap {"baseId", "tableId", "recordId"} : args[f] = ""
  \/ Has(args, "recordIds") /\
       \E i \in 1..Len(args.recordIds) : args.recordIds[i] = ""
  \/ Has(args, "records") /\
       \E i \in 1..Len(args.records) : args.records[i].id = ""

C15_IdentifiersRequired ==
  /\ \A s \in Sessions : \A h \in inflight[s] : ~EmptyIdentifier(h.args)
  /\ (Answered /\ EmptyIdentifier(lastEnv.args)) =>
       /\ lastEnv.resp = NoResponse
       /\ FlaggedError(lastEnv.result)

(***************************************************************************)
(* C16: a READ command never produces a write request: the request its     *)
(* handler sends is a GET, and no step taken for a READ command, its start *)
(* or its answer, adds a POST, PATCH or DELETE to what the session has     *)
(* sent to the provider.                                                   *)
(***************************************************************************)
WriteRequests(reqs) ==
  {i \in 1..Len(reqs) : reqs[i].req.method \in WriteMethods}

C16_ReadsOnlyGet ==
  /\ [](\A s \in Sessions : \A h \in inflight[s] :
          h.name \in ReadTools =>
            \A i \in RequestsFor(s, h.id) : requests[s][i].req.method = "GET")
  /\ [][\A s \in Sessions :
          /\ \A h \in inflight'[s] \ inflight[s] :
               h.name \in ReadTools =>
                 /\ requests'[s][Len(requests'[s])].id = h.id
                 /\ requests'[s][Len(requests'[s])].req.method = "GET"
                 /\ WriteRequests(requests'[s]) = WriteRequests(requests[s])
          /\ (delivered'[s] # delivered[s] /\ lastEnv'.name \in ReadTools) =>
               WriteRequests(requests'[s]) = WriteRequests(requests[s])]_vars

C16_Witness ==
  \E s \in Sessions :
    /\ Len(requests[s]) = 2
    /\ WriteRequests(requests[s]) = {}
    /\ \E h \in inflight[s] : h.name = "searchRecords"
    /\ Answered /\ lastEnv.name = "describeTable" /\ lastEnv.resp.kind = "ok"

=============================================================================
